---- MODULE Spec2Model ----
(***************************************************************************)
(* Model of the voice conversation client in src/app.js (lines 1-139):     *)
(* session id resolution, startRecording with its MediaRecorder handlers,  *)
(* the Record/Stop buttons and the auto-restart listener of the player.    *)
(*                                                                         *)
(* The browser is the environment: getUserMedia grants or refuses, a       *)
(* stopped MediaRecorder delivers one dataavailable event and then its     *)
(* stop event (start() is called without a timeslice, line 99), fetch      *)
(* settles, the audio element ends, the 500 ms timer expires.  A disabled  *)
(* button delivers no click.  Each action is one run-to-completion task    *)
(* of the single-threaded event loop.                                      *)
(***************************************************************************)
EXTENDS Integers, Sequences, FiniteSets, TLC

VARIABLES
    location,          \* value of the session_id URL parameter (NoId if absent)
    session_id,        \* line 4
    mediaRecorder,     \* line 2: index into recorders, 0 = undefined
    audioChunks,       \* line 3
    recorders,         \* every MediaRecorder object created so far, with the
                       \* number of non-empty chunks it has delivered
    pending,           \* startRecording calls awaiting getUserMedia, per origin
    calls,             \* every fetch issued so far
    recordBtn_disabled,
    stopBtn_disabled,
    statusText,
    spinner,           \* TRUE = display "block"
    geminiText,
    audioPlayer,       \* [src, display, playing]
    timers,            \* pending setTimeout callbacks: elapsed ms, oldest first
    clicks,            \* number of button clicks so far
    uuids,             \* number of identifiers crypto.randomUUID has produced
    resolves           \* number of calls of getOrCreateSessionId since the start

vars == <<location, session_id, mediaRecorder, audioChunks, recorders, pending,
          calls, recordBtn_disabled, stopBtn_disabled, statusText, spinner,
          geminiText, audioPlayer, timers, clicks, uuids, resolves>>

sessionVars == <<location, session_id, uuids, resolves>>

----------------------------------------------------------------------------
(* Bounds *)
MaxClicks == 4
TickStep == 250
MaxResolves == 6
MaxUUIDs == 3

(* Program constants *)
GraceDelay == 500

NoId == "<none>"
Absent == "<absent>"
\* crypto.randomUUID never repeats: its n-th result
UUIDPool == <<"uuid-1", "uuid-2", "uuid-3", "uuid-4", "uuid-5", "uuid-6",
             "uuid-7", "uuid-8">>
UUID(n) == UUIDPool[n]
NewUUID == UUID(1)
Placeholder == "No response yet."
FallbackMsg == "Incomplete response from server. Missing text or audio URL."
NetErrMsg == "<network error>"
SyntaxErrMsg == "<json syntax error>"
TypeErrMsg == "<type error: property of null>"

Locations == {NoId, "123"}
SessionLocations == {NoId, "", "123", "abc"}
ChunkSizes == {0, 10}
Origins == {"user", "auto"}

\* JavaScript truthiness of an optional string field
Truthy(v) == v # Absent /\ v # ""

\* Response bodies: not JSON, the JSON value null, or a JSON object
Objects == [kind        : {"object"},
            gemini_text : {Absent, "", "hi"},
            audio_url   : {Absent, "u1"},
            detail      : {Absent, "", "quota exceeded"}]
NonObject(k) ==
    [kind |-> k, gemini_text |-> Absent, audio_url |-> Absent, detail |-> Absent]
Bodies == {NonObject("malformed"), NonObject("null")} \cup Objects
Responses == [ok : BOOLEAN, body : Bodies]
NoResp == [ok |-> FALSE, body |-> NonObject("none")]

StRecording == <<"recording">>
StProcessing == <<"processing">>
StReady == <<"ready">>
StMicDenied == <<"mic-denied">>
StInitial == <<"initial">>
StError(msg) == <<"error", msg>>

----------------------------------------------------------------------------
(* Session id, lines 19-32 *)
\* a resolver that generates an identifier but leaves the address alone
getOrCreateSessionId_NoPushState(loc, n) ==
    IF loc = NoId \/ loc = ""
      THEN [id |-> UUID(n + 1), loc |-> loc, generated |-> 1]
      ELSE [id |-> loc, loc |-> loc, generated |-> 0]

\* loc is the session_id parameter of the address, n the number of
\* identifiers generated before the call
getOrCreateSessionId(loc, n) ==
    IF loc = NoId \/ loc = ""
      THEN [id |-> UUID(n + 1), loc |-> UUID(n + 1), generated |-> 1]
      ELSE [id |-> loc, loc |-> loc, generated |-> 0]

\* The initial button states come from the page markup, which is not among
\* the sources: Record starts enabled, Stop in either state.
PageState ==
    /\ mediaRecorder = 0
    /\ audioChunks = <<>>
    /\ recorders = <<>>
    /\ pending = [o \in Origins |-> 0]
    /\ calls = <<>>
    /\ recordBtn_disabled = FALSE
    /\ stopBtn_disabled \in BOOLEAN
    /\ statusText = StInitial
    /\ spinner = FALSE
    /\ geminiText = Placeholder
    /\ audioPlayer = [src |-> "", display |-> "none", playing |-> FALSE]
    /\ timers = <<>>
    /\ clicks = 0

\* the state once the script has run, lines 2-33
Init ==
    /\ \E l \in Locations :
         /\ location = getOrCreateSessionId(l, 0).loc
         /\ session_id = getOrCreateSessionId(l, 0).id
         /\ uuids = getOrCreateSessionId(l, 0).generated
    /\ resolves = 1
    /\ PageState

\* the page before the script has resolved the session: lines 2-4
SessionInit ==
    /\ location \in SessionLocations
    /\ session_id = NoId
    /\ uuids = 0
    /\ resolves = 0
    /\ PageState

pageVars == <<mediaRecorder, audioChunks, recorders, pending, calls,
              recordBtn_disabled, stopBtn_disabled, statusText, spinner,
              geminiText, audioPlayer, timers, clicks>>

\* one call of getOrCreateSessionId, line 32
Resolve ==
    /\ resolves < MaxResolves
    /\ resolves' = resolves + 1
    /\ location' = getOrCreateSessionId(location, uuids).loc
    /\ session_id' = getOrCreateSessionId(location, uuids).id
    /\ uuids' = uuids + getOrCreateSessionId(location, uuids).generated
    /\ UNCHANGED pageVars

\* the user opens the page under another address: the script starts afresh
Navigate(l) ==
    /\ uuids < MaxUUIDs
    /\ l # location
    /\ location' = l
    /\ session_id' = NoId
    /\ UNCHANGED <<uuids, resolves, pageVars>>

NavigateAny == \E l \in SessionLocations : Navigate(l)

SessionNext ==
    \/ Resolve
    \/ NavigateAny

SessionSpec == SessionInit /\ [][SessionNext]_vars

----------------------------------------------------------------------------
(* startRecording up to its first await, lines 40-43 *)
startRecording(origin) ==
    pending' = [pending EXCEPT ![origin] = @ + 1]

\* recordBtn.onclick, line 117
RecordClick ==
    /\ ~recordBtn_disabled
    /\ clicks < MaxClicks
    /\ clicks' = clicks + 1
    /\ startRecording("user")
    /\ UNCHANGED <<sessionVars, mediaRecorder, audioChunks, recorders,
                   calls, recordBtn_disabled, stopBtn_disabled, statusText,
                   spinner, geminiText, audioPlayer, timers>>

\* getUserMedia resolves: rest of the try block, lines 45-107
Grant(o) ==
    /\ pending[o] > 0
    /\ pending' = [pending EXCEPT ![o] = @ - 1]
    /\ recorders' = Append(recorders, [state |-> "recording", got |-> 0])
    /\ mediaRecorder' = Len(recorders) + 1
    /\ audioChunks' = <<>>
    /\ recordBtn_disabled' = TRUE
    /\ stopBtn_disabled' = FALSE
    /\ statusText' = StRecording
    /\ geminiText' = Placeholder
    /\ audioPlayer' = [src |-> "", display |-> "none", playing |-> FALSE]
    /\ UNCHANGED <<sessionVars, calls, spinner, timers,
                   clicks>>

\* a catch block that also resets the buttons for a retry
Deny_ResetsButtons(o) ==
    /\ pending[o] > 0
    /\ pending' = [pending EXCEPT ![o] = @ - 1]
    /\ statusText' = StMicDenied
    /\ recordBtn_disabled' = FALSE
    /\ stopBtn_disabled' = TRUE
    /\ UNCHANGED <<sessionVars, mediaRecorder, audioChunks, recorders,
                   calls, spinner, geminiText, audioPlayer, timers, clicks>>

\* getUserMedia rejects: catch block, lines 108-112
Deny(o) ==
    /\ pending[o] > 0
    /\ pending' = [pending EXCEPT ![o] = @ - 1]
    /\ statusText' = StMicDenied
    /\ UNCHANGED <<sessionVars, mediaRecorder, audioChunks, recorders,
                   calls, recordBtn_disabled, stopBtn_disabled, spinner,
                   geminiText, audioPlayer, timers, clicks>>

\* a Stop handler that forgets to re-enable the Record button
StopButtons_RecordStaysDisabled ==
    /\ recordBtn_disabled' = recordBtn_disabled
    /\ stopBtn_disabled' = TRUE

\* button states after a Stop click, lines 125-126
StopButtons ==
    /\ recordBtn_disabled' = FALSE
    /\ stopBtn_disabled' = TRUE

\* stopBtn.onclick, lines 120-127
StopClick ==
    /\ ~stopBtn_disabled
    /\ clicks < MaxClicks
    /\ clicks' = clicks + 1
    /\ recorders' =
         IF mediaRecorder # 0 /\ recorders[mediaRecorder].state = "recording"
           THEN [recorders EXCEPT ![mediaRecorder].state = "stopping"]
           ELSE recorders
    /\ StopButtons
    /\ UNCHANGED <<sessionVars, mediaRecorder, audioChunks, pending,
                   calls, statusText, spinner, geminiText, audioPlayer, timers>>

\* mediaRecorder.ondataavailable, lines 50-54
DataAvailable(r, size) ==
    /\ recorders[r].state = "stopping"
    /\ recorders' = [recorders EXCEPT ![r].state = "flushed",
                                      ![r].got = IF size > 0 THEN @ + 1 ELSE @]
    /\ audioChunks' = IF size > 0
                        THEN Append(audioChunks, [rec |-> r, size |-> size])
                        ELSE audioChunks
    /\ UNCHANGED <<sessionVars, mediaRecorder, pending, calls,
                   recordBtn_disabled, stopBtn_disabled, statusText, spinner,
                   geminiText, audioPlayer, timers, clicks>>

\* a request addressed to an identifier generated for that request
EndpointSession_Regenerated == UUID(uuids + 1)

\* a stop handler that sends nothing when no chunk was recorded
OnStop_SkipsEmpty(r) ==
    /\ recorders[r].state = "flushed"
    /\ recorders' = [recorders EXCEPT ![r].state = "stopped"]
    /\ IF audioChunks = <<>>
         THEN UNCHANGED <<statusText, spinner, calls>>
         ELSE /\ statusText' = StProcessing
              /\ spinner' = TRUE
              /\ calls' = Append(calls, [rec |-> r, blob |-> audioChunks,
                                         sid |-> session_id, state |-> "sent",
                                         resp |-> NoResp])
    /\ UNCHANGED <<sessionVars, mediaRecorder, audioChunks, pending,
                   recordBtn_disabled, stopBtn_disabled, geminiText,
                   audioPlayer, timers, clicks>>

\* the session in the request address, line 70
EndpointSession == session_id

\* mediaRecorder.onstop up to the fetch, lines 57-73
OnStop(r) ==
    /\ recorders[r].state = "flushed"
    /\ recorders' = [recorders EXCEPT ![r].state = "stopped"]
    /\ statusText' = StProcessing
    /\ spinner' = TRUE
    /\ calls' = Append(calls, [rec |-> r, blob |-> audioChunks,
                               sid |-> EndpointSession, state |-> "sent",
                               resp |-> NoResp])
    /\ UNCHANGED <<sessionVars, mediaRecorder, audioChunks, pending,
                   recordBtn_disabled, stopBtn_disabled, geminiText,
                   audioPlayer, timers, clicks>>

\* catch block of onstop, lines 90-95
CatchError(c, msg) ==
    /\ calls' = [calls EXCEPT ![c].state = "done", ![c].resp = NoResp,
                              ![c].blob = <<>>]
    /\ spinner' = FALSE
    /\ statusText' = StError(msg)
    /\ UNCHANGED <<geminiText, audioPlayer>>

\* fetch rejects (host unreachable), lines 70, 90-95
NetworkFail(c) ==
    /\ calls[c].state = "sent"
    /\ CatchError(c, NetErrMsg)
    /\ UNCHANGED <<sessionVars, mediaRecorder, audioChunks, recorders,
                   pending, recordBtn_disabled, stopBtn_disabled, timers,
                   clicks>>

\* The server answers: the task that settles the fetch is queued.  Queuing
\* changes nothing the page can observe, so at most one settled response waits
\* for its task at a time; every order of handling remains possible.
ServerResponds(c, resp) ==
    /\ calls[c].state = "sent"
    /\ \A d \in 1..Len(calls) : calls[d].state # "responded"
    /\ calls' = [calls EXCEPT ![c].state = "responded", ![c].resp = resp]
    /\ UNCHANGED <<sessionVars, mediaRecorder, audioChunks, recorders,
                   pending, recordBtn_disabled, stopBtn_disabled, statusText,
                   spinner, geminiText, audioPlayer, timers, clicks>>

\* line 80 with || in place of &&
IsComplete_Either(body) ==
    /\ body.kind = "object"
    /\ Truthy(body.gemini_text) \/ Truthy(body.audio_url)

\* the condition of line 80; reading a property of null throws
IsComplete(body) ==
    /\ body.kind = "object"
    /\ Truthy(body.gemini_text)
    /\ Truthy(body.audio_url)

\* err.message in the catch block for a response that is not complete
ErrorMessage(body) ==
    IF body.kind = "malformed" THEN SyntaxErrMsg
    ELSE IF body.kind = "null" THEN TypeErrMsg
    ELSE IF Truthy(body.detail) THEN body.detail
    ELSE FallbackMsg

\* a success branch that sets the source but never calls play()
PlayReply_NoPlay(body) ==
    /\ geminiText' = body.gemini_text
    /\ audioPlayer' = [src |-> body.audio_url, display |-> "block",
                       playing |-> audioPlayer.playing]
    /\ statusText' = StReady

\* the success branch, lines 81-85
PlayReply(body) ==
    /\ geminiText' = body.gemini_text
    /\ audioPlayer' = [src |-> body.audio_url, display |-> "block",
                       playing |-> TRUE]
    /\ statusText' = StReady

\* fetch and res.json() settle: lines 76-95
HandleResponse(c) ==
    /\ calls[c].state = "responded"
    /\ LET body == calls[c].resp.body IN
         IF IsComplete(body)
           THEN /\ calls' = [calls EXCEPT ![c].state = "done",
                                         ![c].resp = NoResp, ![c].blob = <<>>]
                /\ spinner' = FALSE
                /\ PlayReply(body)
           ELSE CatchError(c, ErrorMessage(body))
    /\ UNCHANGED <<sessionVars, mediaRecorder, audioChunks, recorders,
                   pending, recordBtn_disabled, stopBtn_disabled, timers,
                   clicks>>

\* audioPlayer 'ended' listener, lines 131-139: arms the timer
PlaybackEnded ==
    /\ audioPlayer.playing
    /\ audioPlayer' = [audioPlayer EXCEPT !.playing = FALSE]
    /\ timers' = Append(timers, 0)
    /\ UNCHANGED <<sessionVars, mediaRecorder, audioChunks, recorders,
                   pending, calls, recordBtn_disabled, stopBtn_disabled,
                   statusText, spinner, geminiText, clicks>>

Min(a, b) == IF a < b THEN a ELSE b

\* time passes for every pending timer
Tick ==
    /\ \E i \in 1..Len(timers) : timers[i] < GraceDelay
    /\ timers' = [i \in 1..Len(timers) |-> Min(timers[i] + TickStep, GraceDelay)]
    /\ UNCHANGED <<sessionVars, mediaRecorder, audioChunks, recorders,
                   pending, calls, recordBtn_disabled, stopBtn_disabled,
                   statusText, spinner, geminiText, audioPlayer, clicks>>

\* a timeout of 0 ms
TimerDue_Immediately == Len(timers) > 0

\* the oldest timer has run for the delay of line 138
TimerDue == Len(timers) > 0 /\ Head(timers) >= GraceDelay

\* a callback that restarts without looking at the Record button
AutoRestartAllowed_Always == TRUE

\* the condition of line 135
AutoRestartAllowed == ~recordBtn_disabled

\* the timeout callback, lines 133-138
TimerFire ==
    /\ TimerDue
    /\ timers' = Tail(timers)
    /\ IF AutoRestartAllowed
         THEN startRecording("auto")
         ELSE UNCHANGED pending
    /\ UNCHANGED <<sessionVars, mediaRecorder, audioChunks, recorders,
                   calls, recordBtn_disabled, stopBtn_disabled, statusText,
                   spinner, geminiText, audioPlayer, clicks>>

----------------------------------------------------------------------------
GrantAny == \E o \in Origins : Grant(o)
DenyAny == \E o \in Origins : Deny(o)
DataAvailableAny ==
    \E r \in 1..Len(recorders), size \in ChunkSizes : DataAvailable(r, size)
OnStopAny == \E r \in 1..Len(recorders) : OnStop(r)
NetworkFailAny == \E c \in 1..Len(calls) : NetworkFail(c)
ServerRespondsAny ==
    \E c \in 1..Len(calls), resp \in Responses : ServerResponds(c, resp)
HandleResponseAny == \E c \in 1..Len(calls) : HandleResponse(c)

Next ==
    \/ RecordClick
    \/ GrantAny
    \/ DenyAny
    \/ StopClick
    \/ DataAvailableAny
    \/ OnStopAny
    \/ NetworkFailAny
    \/ ServerRespondsAny
    \/ HandleResponseAny
    \/ PlaybackEnded
    \/ Tick
    \/ TimerFire

Spec == Init /\ [][Next]_vars

\* Device access is always granted: Next without the refusal
LiveNext ==
    \/ RecordClick
    \/ GrantAny
    \/ StopClick
    \/ DataAvailableAny
    \/ OnStopAny
    \/ NetworkFailAny
    \/ ServerRespondsAny
    \/ HandleResponseAny
    \/ PlaybackEnded
    \/ Tick
    \/ TimerFire

\* The browser runs due timer callbacks and settles getUserMedia; the user
\* and the server are under no obligation.
LiveSpec ==
    /\ Init
    /\ [][LiveNext]_vars
    /\ WF_vars(Tick)
    /\ WF_vars(TimerFire)
    /\ WF_vars(GrantAny)

----------------------------------------------------------------------------
(* Phases of the conversation loop *)
Recording == {r \in 1..Len(recorders) : recorders[r].state = "recording"}
Outstanding == {c \in 1..Len(calls) : calls[c].state \in {"sent", "responded"}}
Capturing == Recording # {}
Submitting == Outstanding # {}
Replying == audioPlayer.playing

\* steps, as seen from outside the handlers
StartRequested == \E o \in Origins : pending'[o] > pending[o]
AutoStartRequested == pending'["auto"] > pending["auto"]
TimerArmed == Len(timers') > Len(timers)
TimerExpires == Len(timers') < Len(timers)
StopIssued == \E r \in 1..Len(recorders) : recorders[r].state # "recording"
Completes(c) == calls[c].state \in {"sent", "responded"} /\ calls'[c].state = "done"
Handles(c) == calls[c].state = "responded" /\ calls'[c].state = "done"
Missing(v) == v = Absent
NonEmpty(v) == v # Absent /\ v # ""

----------------------------------------------------------------------------
\* C1: at any instant at most one recorder is in the recording state, also
\* when several start requests are issued concurrently.
C1_OneCaptureSession == Cardinality(Recording) <= 1

\* C2: at any instant at most one remote call is outstanding.
C2_OneRemoteCall == Cardinality(Outstanding) <= 1

\* C3: while a remote call is outstanding or a reply is playing, no start
\* request gets as far as requesting the device.
C3_StartIgnoredWhenBusy ==
    [][(Submitting \/ Replying) => ~StartRequested]_vars

\* C4: once the playback of a reply has finished (the grace timer is armed)
\* and device access is granted, a capture session is eventually active,
\* whatever the user does or does not do.
C4_HandsFree == (Len(timers) > 0) ~> Capturing

\* C4 witness: after one Record click and one Stop click, the reply of the
\* first turn has been played and a second recorder is recording.
C4_Witness ==
    /\ clicks = 2
    /\ Len(calls) = 1
    /\ calls[1].state = "done"
    /\ Len(recorders) = 2
    /\ recorders[2].state = "recording"

\* C5: an automatic start is requested only by the expiry of a timer that
\* has run for the whole grace delay, and such a timer is armed, at zero,
\* only by the end of a playback.
C5_AutoStartOnlyAfterGrace ==
    [][/\ AutoStartRequested =>
            /\ Len(timers) > 0
            /\ Head(timers) >= GraceDelay
            /\ timers' = Tail(timers)
       /\ TimerArmed =>
            /\ audioPlayer.playing
            /\ ~audioPlayer'.playing
            /\ timers' = Append(timers, 0)]_vars

\* C5 witness: an automatic start is waiting for the device
C5_Witness == pending["auto"] > 0

\* C6, as claimed: when the user has issued stop, the expiry of the grace
\* timer starts no new capture.
C6_NoRestartAfterStop ==
    [][(TimerExpires /\ StopIssued) => ~StartRequested]_vars

\* C6, amended: the expiry of the grace timer starts no new capture exactly
\* when the Record button is disabled at that moment; otherwise it requests
\* an automatic start, also after a stop.
C6_RestartUnlessRecordDisabled ==
    [][TimerExpires =>
         IF recordBtn_disabled THEN ~StartRequested ELSE AutoStartRequested]_vars

\* C6 witness: the grace timer is due while the Record button is disabled
C6_Witness ==
    /\ Len(timers) > 0
    /\ Head(timers) >= GraceDelay
    /\ recordBtn_disabled
    /\ StopIssued

\* C7: a response with non-empty gemini_text and audio_url publishes the
\* text, starts playback of audio_url and publishes no error.
C7_ValidReplyPlays ==
    [][\A c \in 1..Len(calls) :
         (/\ Handles(c)
          /\ NonEmpty(calls[c].resp.body.gemini_text)
          /\ NonEmpty(calls[c].resp.body.audio_url))
         => /\ geminiText' = calls[c].resp.body.gemini_text
            /\ audioPlayer'.src = calls[c].resp.body.audio_url
            /\ audioPlayer'.playing
            /\ audioPlayer'.display = "block"
            /\ statusText' = StReady]_vars

\* C7 witness: the reply "hi" is shown and "u1" is playing
C7_Witness ==
    /\ audioPlayer.playing
    /\ audioPlayer.src = "u1"
    /\ geminiText = "hi"
    /\ statusText = StReady

\* C8, as claimed: a response missing gemini_text or audio_url starts no
\* playback, leaves the reply text alone and publishes detail when present,
\* the fallback message otherwise.
C8_MissingFieldMessage ==
    [][\A c \in 1..Len(calls) :
         (/\ Handles(c)
          /\ \/ Missing(calls[c].resp.body.gemini_text)
             \/ Missing(calls[c].resp.body.audio_url))
         => /\ audioPlayer' = audioPlayer
            /\ geminiText' = geminiText
            /\ statusText' =
                 StError(IF Missing(calls[c].resp.body.detail)
                           THEN FallbackMsg
                           ELSE calls[c].resp.body.detail)]_vars

\* C8, amended: a response without a non-empty gemini_text and audio_url
\* starts no playback, leaves the reply text alone and publishes an error;
\* when its body is a JSON object the message is detail if that is a
\* non-empty string and the fallback message otherwise.
C8_IncompleteObjectMessage ==
    [][\A c \in 1..Len(calls) :
         (/\ Handles(c)
          /\ \/ ~NonEmpty(calls[c].resp.body.gemini_text)
             \/ ~NonEmpty(calls[c].resp.body.audio_url))
         => /\ audioPlayer' = audioPlayer
            /\ geminiText' = geminiText
            /\ statusText'[1] = "error"
            /\ calls[c].resp.body.kind = "object" =>
                 statusText' =
                   StError(IF NonEmpty(calls[c].resp.body.detail)
                             THEN calls[c].resp.body.detail
                             ELSE FallbackMsg)]_vars

\* C8 witness: the detail of an incomplete response is the published error
C8_Witness ==
    /\ statusText = StError("quota exceeded")
    /\ ~spinner
    /\ ~audioPlayer.playing

\* C9: a response with a non-success status publishes an error, shows no
\* reply text and starts no playback, whatever its body.
C9_ErrorStatusFails ==
    [][\A c \in 1..Len(calls) :
         (Handles(c) /\ ~calls[c].resp.ok)
         => /\ statusText'[1] = "error"
            /\ geminiText' = geminiText
            /\ audioPlayer' = audioPlayer]_vars

\* C10: when a remote call fails, the capture and the call of its turn are
\* over, the turn has started no playback, and the Record button accepts a
\* click.
C10_CaptureReadyAfterError ==
    [][\A c \in 1..Len(calls) :
         (Completes(c) /\ statusText'[1] = "error")
         => /\ recorders'[calls[c].rec].state = "stopped"
            /\ audioPlayer' = audioPlayer
            /\ ~recordBtn_disabled']_vars

\* a start request ends without a recorder: the device was refused
DeviceRefused ==
    /\ \E o \in Origins : pending'[o] < pending[o]
    /\ Len(recorders') = Len(recorders)

\* C11: a refused device request creates no capture session, leaves the
\* buttons, the chunk buffer, the player and the reply text as they were,
\* publishes the denial and issues no remote call.
C11_DeniedChangesOnlyStatus ==
    [][DeviceRefused =>
         /\ recorders' = recorders
         /\ mediaRecorder' = mediaRecorder
         /\ recordBtn_disabled' = recordBtn_disabled
         /\ stopBtn_disabled' = stopBtn_disabled
         /\ audioChunks' = audioChunks
         /\ geminiText' = geminiText
         /\ audioPlayer' = audioPlayer
         /\ calls' = calls
         /\ spinner' = spinner
         /\ statusText' = StMicDenied]_vars

\* C11 witness: the denial is published while a recorder is recording and
\* the Record button is disabled
C11_Witness ==
    /\ statusText = StMicDenied
    /\ Capturing
    /\ recordBtn_disabled

\* C12: while the denial is the published status, no automatic start
\* requests the device.
C12_NoAutoStartAfterDenial ==
    [][statusText = StMicDenied => ~AutoStartRequested]_vars

\* C13: the session identifier is resolved, by one call, before any capture
\* can start; it never changes, and every remote call carries it.
C13_OneSessionId ==
    /\ [](/\ resolves = 1
          /\ session_id \notin {NoId, ""}
          /\ \A c \in 1..Len(calls) : calls[c].sid = session_id)
    /\ [][session_id' = session_id]_vars

\* C13 witness: two remote calls of one conversation have been issued
C13_Witness ==
    /\ Len(calls) = 2
    /\ calls[1].sid = "123"
    /\ calls[2].sid = "123"

\* steps of the resolver
Resolved == resolves' = resolves + 1
HasId(loc) == loc # NoId /\ loc # ""

\* C14: a call for an address with an identifier returns it and leaves the
\* address alone; a call for an address without one returns an identifier
\* never used before and writes it into the address; every later call for
\* the page returns what the first returned and changes nothing.
C14_ResolverIdempotent ==
    [][Resolved =>
         /\ HasId(location) =>
              /\ session_id' = location
              /\ location' = location
              /\ uuids' = uuids
         /\ ~HasId(location) =>
              /\ session_id' = UUID(uuids + 1)
              /\ location' = session_id'
              /\ uuids' = uuids + 1
         /\ session_id # NoId =>
              /\ session_id' = session_id
              /\ location' = location
              /\ uuids' = uuids]_vars

\* C14 witness: three calls for a page opened without an identifier have
\* generated one identifier
C14_Witness ==
    /\ resolves = 3
    /\ uuids = 1
    /\ session_id = UUID(1)
    /\ location = UUID(1)

\* the stop event of recorder r is handled and its recording is submitted
Submits(r) ==
    /\ recorders[r].state = "flushed"
    /\ recorders'[r].state = "stopped"
    /\ Len(calls') = Len(calls) + 1
Submitted == calls'[Len(calls')].blob

\* C15: the recording submitted at the stop event of a capture session is
\* the sequence of the non-empty chunks that session delivered: all of
\* them, and no chunk of another session.
C15_OwnChunksOnly ==
    [][\A r \in 1..Len(recorders) :
         Submits(r) =>
           /\ Len(Submitted) = recorders[r].got
           /\ \A i \in 1..Len(Submitted) : Submitted[i].rec = r]_vars

\* the remote calls issued for recorder r, and the recorders whose stop has
\* been confirmed
CallsFor(r) == {c \in 1..Len(calls) : calls[c].rec = r}
Stopped == {r \in 1..Len(recorders) : recorders[r].state = "stopped"}

\* C16: every capture session whose stop is confirmed has exactly one remote
\* call, also with zero chunks; no other call exists (none for a session
\* not stopped, none for a Stop click without an active capture), and a
\* call that has completed is never sent again.
C16_OneCallPerStop ==
    /\ [](/\ Len(calls) = Cardinality(Stopped)
          /\ \A r \in 1..Len(recorders) :
               Cardinality(CallsFor(r)) = IF r \in Stopped THEN 1 ELSE 0)
    /\ [][\A c \in 1..Len(calls) :
            /\ calls[c].state = "done" => calls'[c].state = "done"
            /\ calls'[c].rec = calls[c].rec]_vars

\* C16 witness: the only capture so far yielded no chunk, was stopped and
\* has been submitted
C16_Witness ==
    /\ Len(recorders) = 1
    /\ recorders[1].state = "stopped"
    /\ recorders[1].got = 0
    /\ Len(calls) = 1
    /\ calls[1].state = "sent"
    /\ calls[1].blob = <<>>

\* C17: a capture session is never active while a remote call is
\* outstanding or a reply is playing.
C17_PhasesExclusive == ~(Capturing /\ (Submitting \/ Replying))

\* C18: the Record button is disabled and the Stop button enabled exactly
\* when some capture session is in progress.
C18_ButtonsMirrorCapture ==
    (recordBtn_disabled /\ ~stopBtn_disabled) <=> Capturing

\* C19: the spinner is visible exactly while a remote call is outstanding.
C19_SpinnerMirrorsCall == spinner <=> Submitting

\* C20: while a capture session is in progress the reply text is the
\* placeholder and the player is empty and hidden.
C20_ReplyClearedWhileCapturing ==
    Capturing =>
      /\ geminiText = Placeholder
      /\ audioPlayer.src = ""
      /\ audioPlayer.display = "none"
      /\ ~audioPlayer.playing

====
